---------------------------- MODULE Spec2Model ----------------------------
(***************************************************************************)
(* Model of the gansner crate: the layout facade `Gansner` (src/src/lib.rs), *)
(* its rank-hint registry `RankSets` (src/src/rank_set.rs) and the graph    *)
(* preparation of `layout_impl` (src/src/layout.rs).                        *)
(*                                                                         *)
(* Conventions.  Node and edge indices are 1-based here (petgraph's are    *)
(* 0-based): node handle k is NodeIndex k-1, edge identifier i is          *)
(* EdgeIndex i-1.  The graph is petgraph's `Graph`: edges live in a vector *)
(* (`remove_edge` is a swap_remove, `add_edge` a push) and every node      *)
(* keeps its incoming and outgoing edges in lists headed by the edge added *)
(* last.  The field `age` of an edge is its place in the order of          *)
(* insertion (1 = oldest), which is what those lists record.               *)
(* A panic (assert!, panic!, unwrap on None) ends the run: pc becomes      *)
(* "panicked" with the state as the panic found it.                        *)
(***************************************************************************)
EXTENDS Integers, Sequences, FiniteSets, TLC

\* ------------------------------------------------------------------ bounds
\* Spec: the whole facade
MaxNodes == 2
MaxEdges == 1
\* SpecRanks: the rank-hint calls alone
RankNodes == 3
\* SpecNormalize: graphs and hints, then layout
NormNodes == 2
NormEdges == 4
\* SpecEdges: edges with and without options, then layout
EdgeNodes == 2
EdgeEdges == 2
\* SpecBoundaryScenario, SpecCycleScenario: the nodes A, B, C, D, E
ScenarioNodes == 5

\* --------------------------------------------------------------- constants
\* RankSets::MIN_RANK
MIN_RANK == 0
\* RankSets::MAX_RANK = RankIdx::MAX (usize::MAX), held at the largest integer
\* TLC represents: all that the code uses of it is that it differs
\* from, and is greater than, every other rank index.
MAX_RANK == 2147483647
\* the first index new_rank hands out
FIRST_RANK == 1
\* Edge::new: min_rank_len and weight default to 1
DEFAULT_MIN_RANK_LEN == 1
DEFAULT_WEIGHT == 1
\* Point::ZERO, one coordinate standing for both
ZERO == 0
\* the bounding box of examples/simple.rs
SZ == 10

\* inputs of the public calls
Payloads == {"p"}
Sizes == {SZ}
MinRankLens == {0}
Weights == {-1, 2}

VARIABLES
    nodes,              \* graph: the node weights, NodeWeight per node index
    edges,              \* graph: the edge vector, [source, target, weight, age]
    ranks,              \* rank_hints.ranks : HashMap<Node, RankIdx>
    next_rank_idx,      \* rank_hints.next_rank_idx
    fresh,              \* Gansner::fresh
    debug_assertions,   \* the build: cfg(debug_assertions)
    pc,                 \* "idle", "normalized" (inside layout_impl), "panicked"
    copy,               \* layout_impl: the edges as make_acyclic found them
    modified,           \* layout_impl: what make_acyclic returned
    yielded,            \* what the last iter_nodes call yielded
    linked,             \* history: the reference union-find of the pairs that
                        \* set_rank_same has joined (node -> least node joined)
    hinted              \* history: the nodes on which set_rank_min or
                        \* set_rank_max has returned (node -> MIN_RANK / MAX_RANK)

vars == <<nodes, edges, ranks, next_rank_idx, fresh, debug_assertions, pc,
          copy, modified, yielded, linked, hinted>>

\* ------------------------------------------------------------ small helpers
Range(s) == {s[i] : i \in 1..Len(s)}

\* the orders in which a set can be iterated
Orders(S) == {s \in [1..Cardinality(S) -> S] : Range(s) = S}

\* the reference union-find: find, and the union of the classes of a and b
Find(l, n) == IF n \in DOMAIN l THEN l[n] ELSE n
Union(l, a, b) ==
    LET ra == Find(l, a)
        rb == Find(l, b)
        rep == IF ra < rb THEN ra ELSE rb
    IN  [n \in DOMAIN l \cup {a, b} |->
            IF Find(l, n) \in {ra, rb} THEN rep ELSE Find(l, n)]

\* ------------------------------------------------------- petgraph::Graph
\* Graph::add_edge: push, and head of both endpoints' edge lists
Graph_add_edge(es, a, b, w) ==
    Append(es, [source |-> a, target |-> b, weight |-> w, age |-> Len(es) + 1])

\* Graph::edge_endpoints(id).is_some()
Graph_has_edge(es, id) == id \in 1..Len(es)

\* Graph::remove_edge: swap_remove; the edge moved into the hole keeps its
\* place in the edge lists
Graph_remove_edge(es, id) ==
    [k \in 1..(Len(es) - 1) |->
        [(IF k = id THEN es[Len(es)] ELSE es[k])
            EXCEPT !.age = IF @ > es[id].age THEN @ - 1 ELSE @]]

\* Graph::edges_directed(n, dir): the identifiers of n's edges in that
\* direction, the edge added last first
RECURSIVE ByAgeDesc(_, _)
Newest(es, ids) == CHOOSE i \in ids : \A j \in ids : es[j].age <= es[i].age
ByAgeDesc(es, ids) ==
    IF ids = {} THEN <<>>
    ELSE <<Newest(es, ids)>> \o ByAgeDesc(es, ids \ {Newest(es, ids)})

edges_directed(es, n, dir) ==
    ByAgeDesc(es, {i \in 1..Len(es) :
                     IF dir = "Incoming" THEN es[i].target = n
                                         ELSE es[i].source = n})

\* the multiset of (from, to, weight) of an edge vector, as a function from
\* the triples present to their counts
EdgeTriple(e) == <<e.source, e.target, e.weight>>
EdgeBag(es) ==
    [t \in {EdgeTriple(es[i]) : i \in 1..Len(es)} |->
        Cardinality({i \in 1..Len(es) : EdgeTriple(es[i]) = t})]

\* ----------------------------------- petgraph::algo::greedy_feedback_arc_set
\* The nodes that have an edge, in the order the edge vector first names
\* them (source before target): the order of the algorithm's node entries.
RECURSIVE FasNodes(_, _)
FasNodes(es, seen) ==
    IF es = <<>> THEN seen
    ELSE FasNodes(Tail(es),
             seen \o (IF Head(es).source \in Range(seen)
                      THEN <<>> ELSE <<Head(es).source>>)
                  \o (IF Head(es).target \in Range(seen) \cup {Head(es).source}
                      THEN <<>> ELSE <<Head(es).target>>))

\* out_edges / in_edges of a node entry: one neighbour per edge, in edge order
RECURSIVE FasOutEdges(_, _)
FasOutEdges(es, n) ==
    IF es = <<>> THEN <<>>
    ELSE (IF Head(es).source = n THEN <<Head(es).target>> ELSE <<>>)
         \o FasOutEdges(Tail(es), n)

RECURSIVE FasInEdges(_, _)
FasInEdges(es, n) ==
    IF es = <<>> THEN <<>>
    ELSE (IF Head(es).target = n THEN <<Head(es).source>> ELSE <<>>)
         \o FasInEdges(Tail(es), n)

\* Buckets::suitable_bucket: sinks (and isolated nodes), sources, or the
\* bucket of the node's out-degree minus its in-degree
suitable_bucket(st, n) ==
    IF st.out_degree[n] = 0 THEN <<"sinks_or_isolated", 0>>
    ELSE IF st.in_degree[n] = 0 THEN <<"sources", 0>>
    ELSE <<"bidirectional", st.out_degree[n] - st.in_degree[n]>>

\* the members of a bucket; its list is headed by the node pushed last
BucketNodes(st, b) == {n \in st.in_list : suitable_bucket(st, n) = b}
BucketHead(st, b) ==
    CHOOSE n \in BucketNodes(st, b) :
        \A m \in BucketNodes(st, b) : st.pushed[m] <= st.pushed[n]

\* NodeLinkedList::push_front of n on the bucket that now suits it
push_front(st, n) ==
    [st EXCEPT !.pushed[n] = st.clock + 1, !.clock = st.clock + 1]

\* NodeLinkedList::pop: the head leaves its list
pop(st, n) == [st EXCEPT !.in_list = @ \ {n}]

\* Buckets::update_neighbour_node_buckets: every edge of the node taken
\* costs its other end a degree and moves that end to the front of the
\* bucket that suits it now; loops and nodes already taken are skipped.
RECURSIVE LoseInEdges(_, _, _)
LoseInEdges(st, ix, outs) ==
    IF outs = <<>> THEN st
    ELSE IF Head(outs) = ix \/ Head(outs) \notin st.in_list
         THEN LoseInEdges(st, ix, Tail(outs))
         ELSE LoseInEdges(
                  push_front([st EXCEPT !.in_degree[Head(outs)] = @ - 1],
                             Head(outs)),
                  ix, Tail(outs))

RECURSIVE LoseOutEdges(_, _, _)
LoseOutEdges(st, ix, ins) ==
    IF ins = <<>> THEN st
    ELSE IF Head(ins) = ix \/ Head(ins) \notin st.in_list
         THEN LoseOutEdges(st, ix, Tail(ins))
         ELSE LoseOutEdges(
                  push_front([st EXCEPT !.out_degree[Head(ins)] = @ - 1],
                             Head(ins)),
                  ix, Tail(ins))

update_neighbour_node_buckets(st, es, ix) ==
    LoseOutEdges(LoseInEdges(st, ix, FasOutEdges(es, ix)), ix,
                 FasInEdges(es, ix))

\* the bucket the third step of the loop takes from: the highest
\* non-negative degree difference, else the negative one nearest to zero
BidirectionalDeltas(st) ==
    {suitable_bucket(st, n)[2] :
        n \in {m \in st.in_list : suitable_bucket(st, m)[1] = "bidirectional"}}
HighestDelta(st) ==
    CHOOSE d \in BidirectionalDeltas(st) :
        \A e \in BidirectionalDeltas(st) : e <= d

\* one turn of good_node_sequence's loop: the node n leaves its bucket, its
\* neighbours are updated, and n goes to the front of s_2 (a sink) or to
\* the back of s_1
Take(st, es, n, sink) ==
    [update_neighbour_node_buckets(pop(st, n), es, n)
        EXCEPT !.s_1 = IF sink THEN @ ELSE Append(@, n),
               !.s_2 = IF sink THEN <<n>> \o @ ELSE @]

\* good_node_sequence's loop: all sinks (to the front of s_2), all sources
\* (to the back of s_1), then one node of the highest degree difference (to
\* the back of s_1), until a round moves nothing
RECURSIVE GoodSequenceLoop(_, _, _)
GoodSequenceLoop(st, es, step) ==
    IF step = "sinks" THEN
        IF BucketNodes(st, <<"sinks_or_isolated", 0>>) # {}
        THEN GoodSequenceLoop(
                 Take(st, es, BucketHead(st, <<"sinks_or_isolated", 0>>), TRUE),
                 es, "sinks")
        ELSE GoodSequenceLoop(st, es, "sources")
    ELSE IF step = "sources" THEN
        IF BucketNodes(st, <<"sources", 0>>) # {}
        THEN GoodSequenceLoop(
                 Take(st, es, BucketHead(st, <<"sources", 0>>), FALSE),
                 es, "sources")
        ELSE GoodSequenceLoop(st, es, "bidirectional")
    ELSE
        IF BidirectionalDeltas(st) # {}
        THEN GoodSequenceLoop(
                 Take(st, es,
                      BucketHead(st, <<"bidirectional", HighestDelta(st)>>),
                      FALSE),
                 es, "sinks")
        ELSE IF st.in_list # {} THEN GoodSequenceLoop(st, es, "sinks")
        ELSE st

\* the buckets as good_node_sequence fills them: every node of `order` in
\* the bucket that suits it, pushed in that order
InitialBuckets(es, order) ==
    [in_list |-> Range(order),
     out_degree |-> [n \in Range(order) |-> Len(FasOutEdges(es, n))],
     in_degree |-> [n \in Range(order) |-> Len(FasInEdges(es, n))],
     pushed |-> [n \in Range(order) |->
                    CHOOSE k \in 1..Len(order) : order[k] = n],
     clock |-> Len(order),
     s_1 |-> <<>>,
     s_2 |-> <<>>]

\* each node's place in the sequence seq
Places(seq) == [n \in Range(seq) |-> CHOOSE k \in 1..Len(seq) : seq[k] = n]

\* s_1 followed by s_2
Sequence(done) == done.s_1 \o done.s_2

\* good_node_sequence: each node's place in s_1 followed by s_2
good_node_sequence(es) ==
    Places(Sequence(GoodSequenceLoop(InitialBuckets(es, FasNodes(es, <<>>)),
                                     es, "sinks")))

\* the edges that do not go forward in the sequence, in edge order
RECURSIVE BackwardIds(_, _, _)
BackwardIds(es, i, node_seq) ==
    IF i > Len(es) THEN <<>>
    ELSE (IF node_seq[es[i].source] >= node_seq[es[i].target]
          THEN <<i>> ELSE <<>>) \o BackwardIds(es, i + 1, node_seq)

\* a feedback arc set that flags nothing
greedy_feedback_arc_set_none(es) == <<>>

\* greedy_feedback_arc_set: the edges that do not go forward in the good
\* sequence (every loop among them), in edge order
greedy_feedback_arc_set(es) == BackwardIds(es, 1, good_node_sequence(es))

\* petgraph::algo::is_cyclic_directed: some node reaches itself
RECURSIVE ReachFrom(_, _)
ReachFrom(es, S) ==
    IF {es[i].target : i \in {j \in 1..Len(es) : es[j].source \in S}} \subseteq S
    THEN S
    ELSE ReachFrom(es, S \cup {es[i].target :
                                 i \in {j \in 1..Len(es) : es[j].source \in S}})

is_cyclic_directed(es) ==
    \E i \in 1..Len(es) : es[i].source \in ReachFrom(es, {es[i].target})

\* petgraph::algo::is_isomorphic of two graphs on the same n nodes: some
\* renaming of the nodes carries the edges of one onto the edges of the
\* other (weights are not compared)
PairBag(es, f) ==
    LET pr(e) == <<f[e.source], f[e.target]>>
    IN  [t \in {pr(es[i]) : i \in 1..Len(es)} |->
            Cardinality({i \in 1..Len(es) : pr(es[i]) = t})]

is_isomorphic(es0, es1, n) ==
    /\ Len(es0) = Len(es1)
    /\ \E f \in Orders(1..n) :
           PairBag(es0, f) = PairBag(es1, [k \in 1..n |-> k])

\* ---------------------------------------------------------------- RankSets
\* A registry is [ranks, next_rank_idx]; every operation returns the
\* registry it leaves and whether it returned (ok) or panicked.
Returned(rs) == [ranks |-> rs.ranks, next_rank_idx |-> rs.next_rank_idx, ok |-> TRUE]
Panicked(rs) == [ranks |-> rs.ranks, next_rank_idx |-> rs.next_rank_idx, ok |-> FALSE]

\* HashMap::insert
Insert(r, node, rank) ==
    [m \in DOMAIN r \cup {node} |-> IF m = node THEN rank ELSE r[m]]

\* RankSets::new
RankSets_new == [ranks |-> <<>>, next_rank_idx |-> FIRST_RANK]

\* RankSets::node_rank(node).is_some()
node_rank_is_some(rs, node) == node \in DOMAIN rs.ranks

\* RankSets::set_rank_max
RankSets_set_rank_max(rs, node) ==
    IF node_rank_is_some(rs, node) THEN Panicked(rs)
    ELSE Returned([rs EXCEPT !.ranks = Insert(@, node, MAX_RANK)])

\* set_rank_min without its assert!: the hint is inserted whatever the node has
RankSets_set_rank_min_unasserted(rs, node) ==
    Returned([rs EXCEPT !.ranks = Insert(@, node, MIN_RANK)])

\* RankSets::set_rank_min
RankSets_set_rank_min(rs, node) ==
    IF node_rank_is_some(rs, node) THEN Panicked(rs)
    ELSE Returned([rs EXCEPT !.ranks = Insert(@, node, MIN_RANK)])

\* merge_ranks that stops after the first node it rewrites
merge_ranks_first_only(rs, from, to) ==
    LET hit == {m \in DOMAIN rs.ranks : rs.ranks[m] = from}
        first == IF hit = {} THEN {}
                 ELSE {CHOOSE m \in hit : \A o \in hit : o <= m}
    IN  [rs EXCEPT !.ranks = [m \in DOMAIN @ |-> IF m \in first THEN to ELSE @[m]]]

\* RankSets::merge_ranks
merge_ranks(rs, from, to) ==
    [rs EXCEPT !.ranks = [m \in DOMAIN @ |-> IF @[m] = from THEN to ELSE @[m]]]

\* RankSets::add_rank
add_rank(rs, node, rank) == [rs EXCEPT !.ranks = Insert(@, node, rank)]

\* new_rank that hands out the same index again
new_rank_reused(rs) ==
    IF rs.next_rank_idx = MAX_RANK
    THEN [rank |-> rs.next_rank_idx, rs |-> rs, ok |-> FALSE]
    ELSE [rank |-> rs.next_rank_idx, rs |-> rs, ok |-> TRUE]

\* RankSets::new_rank: [rank, rs, ok]
new_rank(rs) ==
    IF rs.next_rank_idx = MAX_RANK
    THEN [rank |-> rs.next_rank_idx, rs |-> rs, ok |-> FALSE]
    ELSE [rank |-> rs.next_rank_idx,
          rs |-> [rs EXCEPT !.next_rank_idx = @ + 1],
          ok |-> TRUE]

\* set_rank that merges a boundary group into the other group
set_rank_outward(rs, a, b) ==
    IF node_rank_is_some(rs, a) /\ node_rank_is_some(rs, b) THEN
        LET ra == rs.ranks[a]
            rb == rs.ranks[b]
            rank_a == IF ra > rb THEN rb ELSE ra
            rank_b == IF ra > rb THEN ra ELSE rb
        IN  IF rank_a = MIN_RANK /\ rank_b = MAX_RANK THEN Panicked(rs)
            ELSE IF rank_a = MIN_RANK THEN Returned(merge_ranks(rs, rank_a, rank_b))
            ELSE IF rank_b = MAX_RANK THEN Returned(merge_ranks(rs, rank_b, rank_a))
            ELSE Returned(merge_ranks(rs, rank_a, rank_b))
    ELSE IF node_rank_is_some(rs, a) THEN Returned(add_rank(rs, b, rs.ranks[a]))
    ELSE IF node_rank_is_some(rs, b) THEN Returned(add_rank(rs, a, rs.ranks[b]))
    ELSE LET nr == new_rank(rs)
         IN  IF ~nr.ok THEN Panicked(rs)
             ELSE Returned(add_rank(add_rank(nr.rs, a, nr.rank), b, nr.rank))

\* set_rank without its panic!: the MAX group is merged into the MIN group
set_rank_unguarded(rs, a, b) ==
    IF node_rank_is_some(rs, a) /\ node_rank_is_some(rs, b) THEN
        LET ra == rs.ranks[a]
            rb == rs.ranks[b]
            rank_a == IF ra > rb THEN rb ELSE ra
            rank_b == IF ra > rb THEN ra ELSE rb
        IN  IF rank_a = MIN_RANK THEN Returned(merge_ranks(rs, rank_b, rank_a))
            ELSE Returned(merge_ranks(rs, rank_a, rank_b))
    ELSE IF node_rank_is_some(rs, a) THEN Returned(add_rank(rs, b, rs.ranks[a]))
    ELSE IF node_rank_is_some(rs, b) THEN Returned(add_rank(rs, a, rs.ranks[b]))
    ELSE LET nr == new_rank(rs)
         IN  IF ~nr.ok THEN Panicked(rs)
             ELSE Returned(add_rank(add_rank(nr.rs, a, nr.rank), b, nr.rank))

\* RankSets::set_rank
set_rank(rs, a, b) ==
    IF node_rank_is_some(rs, a) /\ node_rank_is_some(rs, b) THEN
        LET ra == rs.ranks[a]
            rb == rs.ranks[b]
            rank_a == IF ra > rb THEN rb ELSE ra
            rank_b == IF ra > rb THEN ra ELSE rb
        IN  IF rank_a = MIN_RANK /\ rank_b = MAX_RANK THEN Panicked(rs)
            ELSE IF rank_a = MIN_RANK THEN Returned(merge_ranks(rs, rank_b, rank_a))
            ELSE IF rank_b = MAX_RANK THEN Returned(merge_ranks(rs, rank_a, rank_b))
            ELSE Returned(merge_ranks(rs, rank_a, rank_b))
    ELSE IF node_rank_is_some(rs, a) THEN Returned(add_rank(rs, b, rs.ranks[a]))
    ELSE IF node_rank_is_some(rs, b) THEN Returned(add_rank(rs, a, rs.ranks[b]))
    ELSE LET nr == new_rank(rs)
         IN  IF ~nr.ok THEN Panicked(rs)
             ELSE Returned(add_rank(add_rank(nr.rs, a, nr.rank), b, nr.rank))

\* RankSets::rank_min / rank_max: the nodes of that rank.  The iterator
\* walks the HashMap, whose order is unspecified: the callers take the
\* nodes in any order.
rank_min(r) == {n \in DOMAIN r : r[n] = MIN_RANK}
rank_max(r) == {n \in DOMAIN r : r[n] = MAX_RANK}

\* reverse_edge that returns the identifier it was given
reverse_edge_same_id(es, edge_ix) ==
    IF ~Graph_has_edge(es, edge_ix)
    THEN [es |-> es, id |-> edge_ix, ok |-> FALSE]
    ELSE [es |-> Graph_add_edge(Graph_remove_edge(es, edge_ix),
                                es[edge_ix].target, es[edge_ix].source,
                                es[edge_ix].weight),
          id |-> edge_ix,
          ok |-> TRUE]

\* ------------------------------------------------------------ layout steps
\* Gansner::reverse_edge: [es, id, ok]; the unwrap panics when the graph has
\* no edge of that identifier
reverse_edge(es, edge_ix) ==
    IF ~Graph_has_edge(es, edge_ix)
    THEN [es |-> es, id |-> edge_ix, ok |-> FALSE]
    ELSE [es |-> Graph_add_edge(Graph_remove_edge(es, edge_ix),
                                es[edge_ix].target, es[edge_ix].source,
                                es[edge_ix].weight),
          id |-> Len(es),
          ok |-> TRUE]

\* `.map(|id| self.reverse_edge(id))` over a list of identifiers, in list
\* order: [es, ids (what the calls returned), ok]
RECURSIVE ReverseEach(_, _, _)
ReverseEach(es, ixs, out) ==
    IF ixs = <<>> THEN [es |-> es, ids |-> out, ok |-> TRUE]
    ELSE IF ~Graph_has_edge(es, Head(ixs))
         THEN [es |-> es, ids |-> out, ok |-> FALSE]
         ELSE ReverseEach(reverse_edge(es, Head(ixs)).es, Tail(ixs),
                          Append(out, Len(es)))

\* the removal of the flagged loops, in list order: [es, removed, ok]
RECURSIVE RemoveEach(_, _, _)
RemoveEach(es, ixs, out) ==
    IF ixs = <<>> THEN [es |-> es, removed |-> out, ok |-> TRUE]
    ELSE IF ~Graph_has_edge(es, Head(ixs))
         THEN [es |-> es, removed |-> out, ok |-> FALSE]
         ELSE RemoveEach(Graph_remove_edge(es, Head(ixs)), Tail(ixs),
                  Append(out, [from |-> es[Head(ixs)].source,
                               to |-> es[Head(ixs)].source,
                               weight |-> es[Head(ixs)].weight]))

\* the identifiers the boundary loops collect: the incoming edges of every
\* node of rank_min, then the outgoing edges of every node of rank_max
RECURSIVE CollectDirected(_, _, _)
CollectDirected(es, ns, dir) ==
    IF ns = <<>> THEN <<>>
    ELSE edges_directed(es, Head(ns), dir) \o CollectDirected(es, Tail(ns), dir)

\* the flagged edges that are loops / that are not, in the order flagged
RECURSIVE Loops(_, _, _)
Loops(es, ixs, wanted) ==
    IF ixs = <<>> THEN <<>>
    ELSE (IF (es[Head(ixs)].source = es[Head(ixs)].target) = wanted
          THEN <<Head(ixs)>> ELSE <<>>) \o Loops(es, Tail(ixs), wanted)

\* what prepare_rank_assignment returns, (remove, reverse), with the graph
\* it leaves
Adjustment(removed, second) ==
    [es |-> second.es, remove |-> removed, reverse |-> second.ids,
     ok |-> second.ok]

\* prepare_rank_assignment from `reverse.extend(..)` on: the flagged edges
\* that are not loops are reversed, and the log is returned
ReverseFlagged(first, reverse_ixs, removal) ==
    IF ~removal.ok
    THEN [es |-> removal.es, remove |-> removal.removed,
          reverse |-> first.ids, ok |-> FALSE]
    ELSE Adjustment(removal.removed,
                    ReverseEach(removal.es, reverse_ixs, first.ids))

\* prepare_rank_assignment from the loop over the feedback arc set on: the
\* flagged loops are removed
RemoveFlagged(first, flagged) ==
    ReverseFlagged(first, Loops(first.es, flagged, FALSE),
                   RemoveEach(first.es, Loops(first.es, flagged, TRUE), <<>>))

\* prepare_rank_assignment after the boundary edges have been reversed
MakeAcyclic(first) ==
    IF ~first.ok
    THEN [es |-> first.es, remove |-> <<>>, reverse |-> first.ids, ok |-> FALSE]
    ELSE RemoveFlagged(first, greedy_feedback_arc_set(first.es))

\* Gansner::prepare_rank_assignment (make_acyclic), with the orders in which
\* rank_min() and rank_max() yield their nodes: [es, remove, reverse, ok]
prepare_rank_assignment(es, min_order, max_order) ==
    MakeAcyclic(ReverseEach(es,
                    CollectDirected(es, min_order, "Incoming")
                        \o CollectDirected(es, max_order, "Outgoing"),
                    <<>>))

\* re-inserting the removed edges
RECURSIVE AddEach(_, _)
AddEach(es, removed) ==
    IF removed = <<>> THEN es
    ELSE AddEach(Graph_add_edge(es, Head(removed).from, Head(removed).to,
                                Head(removed).weight),
                 Tail(removed))

\* Gansner::undo_modify_edges: [es, ids, ok]
undo_modify_edges(es, remove, reverse) ==
    ReverseEach(AddEach(es, remove), reverse, <<>>)

\* the three debug_assert! of layout_impl that follow make_acyclic
MinHasNoIncoming(es, r) ==
    \A n \in rank_min(r) : edges_directed(es, n, "Incoming") = <<>>
MaxHasNoOutgoing(es, r) ==
    \A n \in rank_max(r) : edges_directed(es, n, "Outgoing") = <<>>
Postconditions(es, r) ==
    /\ ~is_cyclic_directed(es)
    /\ MinHasNoIncoming(es, r)
    /\ MaxHasNoOutgoing(es, r)

\* ----------------------------------------------------------------- Gansner
\* NodeWeight::new
NodeWeight_new(ix, size) == [ix |-> ix, size |-> size, position |-> ZERO]

\* Edge::new
Edge_new == [min_rank_len |-> DEFAULT_MIN_RANK_LEN, weight |-> DEFAULT_WEIGHT]

\* Edge::with_min_rank_len
with_min_rank_len(e, min_rank_len) == [e EXCEPT !.min_rank_len = min_rank_len]

\* set_weight without its assert!
weight_ok_always(weight) == TRUE

\* Edge::set_weight's assert!
weight_ok(weight) == weight >= 0

\* Edge::with_weight
with_weight(e, weight) == [e EXCEPT !.weight = weight]

\* the handles add_node has returned
Handles == 1..Len(nodes)

NoLog == [remove |-> <<>>, reverse |-> <<>>]

\* Gansner::new / with_capacity / from_graph, in either build
Init ==
    /\ nodes = <<>>
    /\ edges = <<>>
    /\ ranks = RankSets_new.ranks
    /\ next_rank_idx = RankSets_new.next_rank_idx
    /\ fresh = FALSE
    /\ debug_assertions \in BOOLEAN
    /\ pc = "idle"
    /\ copy = <<>>
    /\ modified = NoLog
    /\ yielded = <<>>
    /\ linked = <<>>
    /\ hinted = <<>>

\* what a call that does not enter layout_impl leaves alone
Outside == /\ UNCHANGED <<debug_assertions, copy, modified>>
           /\ yielded' = <<>>

\* Gansner::add_node
add_node(ix, size) ==
    /\ pc = "idle"
    /\ fresh' = FALSE
    /\ nodes' = Append(nodes, NodeWeight_new(ix, size))
    /\ UNCHANGED <<edges, ranks, next_rank_idx, pc, linked, hinted>>
    /\ Outside

\* Gansner::add_edge
add_edge(from, to) ==
    /\ pc = "idle"
    /\ fresh' = FALSE
    /\ edges' = Graph_add_edge(edges, from, to, Edge_new)
    /\ UNCHANGED <<nodes, ranks, next_rank_idx, pc, linked, hinted>>
    /\ Outside

\* Gansner::add_edge_with_options
add_edge_with_options(from, to, min_rank_len, weight) ==
    /\ pc = "idle"
    /\ fresh' = FALSE
    /\ IF weight_ok(weight)
       THEN /\ edges' = Graph_add_edge(edges, from, to,
                            with_weight(with_min_rank_len(Edge_new, min_rank_len),
                                        weight))
            /\ pc' = pc
       ELSE /\ edges' = edges
            /\ pc' = "panicked"
    /\ UNCHANGED <<nodes, ranks, next_rank_idx, linked, hinted>>
    /\ Outside

\* a call on rank_hints that clears fresh only when it changed the registry
RankHintsCall_lazy(res) ==
    /\ fresh' = (fresh /\ res.ranks = ranks)
    /\ ranks' = res.ranks
    /\ next_rank_idx' = res.next_rank_idx
    /\ pc' = IF res.ok THEN pc ELSE "panicked"
    /\ UNCHANGED <<nodes, edges>>
    /\ Outside

\* a call on rank_hints: the registry it leaves, and the panic if it panicked
RankHintsCall(res) ==
    /\ fresh' = FALSE
    /\ ranks' = res.ranks
    /\ next_rank_idx' = res.next_rank_idx
    /\ pc' = IF res.ok THEN pc ELSE "panicked"
    /\ UNCHANGED <<nodes, edges>>
    /\ Outside

rank_hints == [ranks |-> ranks, next_rank_idx |-> next_rank_idx]

\* Gansner::set_rank_max
set_rank_max(node) ==
    /\ pc = "idle"
    /\ RankHintsCall(RankSets_set_rank_max(rank_hints, node))
    /\ hinted' = IF pc' = "idle" THEN Insert(hinted, node, MAX_RANK) ELSE hinted
    /\ UNCHANGED linked

\* Gansner::set_rank_min
set_rank_min(node) ==
    /\ pc = "idle"
    /\ RankHintsCall(RankSets_set_rank_min(rank_hints, node))
    /\ hinted' = IF pc' = "idle" THEN Insert(hinted, node, MIN_RANK) ELSE hinted
    /\ UNCHANGED linked

\* Gansner::set_rank_same
set_rank_same(a, b) ==
    /\ pc = "idle"
    /\ RankHintsCall(set_rank(rank_hints, a, b))
    /\ linked' = IF pc' = "idle" THEN Union(linked, a, b) ELSE linked
    /\ UNCHANGED hinted

\* layout_impl up to the return of make_acyclic: the graph is copied, then
\* r is what prepare_rank_assignment did to it
make_acyclic(r) ==
    /\ copy' = edges
    /\ edges' = r.es
    /\ modified' = [remove |-> r.remove, reverse |-> r.reverse]
    /\ pc' = IF r.ok THEN "normalized" ELSE "panicked"

\* layout without its test of fresh
layout_enter_always(debug) ==
    /\ pc = "idle"
    /\ \E min_order \in Orders(rank_min(ranks)),
          max_order \in Orders(rank_max(ranks)) :
          make_acyclic(prepare_rank_assignment(edges, min_order, max_order))
    /\ yielded' = <<>>
    /\ UNCHANGED <<nodes, ranks, next_rank_idx, fresh, debug_assertions, linked, hinted>>

\* Gansner::layout and Gansner::layout_debug up to the return of
\* make_acyclic: nothing when fresh; else layout_impl keeps the graph it
\* found and normalizes it (the parameter `debug` is not read)
layout_enter(debug) ==
    /\ pc = "idle"
    /\ IF fresh
       THEN UNCHANGED <<edges, pc, copy, modified>>
       ELSE \E min_order \in Orders(rank_min(ranks)),
               max_order \in Orders(rank_max(ranks)) :
               make_acyclic(prepare_rank_assignment(edges, min_order, max_order))
    /\ yielded' = <<>>
    /\ UNCHANGED <<nodes, ranks, next_rank_idx, fresh, debug_assertions, linked, hinted>>

layout == layout_enter(FALSE)
layout_debug == layout_enter(TRUE)

\* layout_impl after undo_modify_edges, which left u: the debug build's
\* isomorphism check, and fresh = true back in layout
undone(u) ==
    /\ edges' = u.es
    /\ IF ~u.ok \/ (debug_assertions /\ ~is_isomorphic(copy, u.es, Len(nodes)))
       THEN /\ pc' = "panicked"
            /\ UNCHANGED <<fresh, copy, modified>>
       ELSE /\ pc' = "idle"
            /\ fresh' = TRUE
            /\ copy' = <<>>
            /\ modified' = NoLog

\* the rest of layout_impl and of layout: the debug build's postcondition
\* checks, undo_modify_edges, the debug build's isomorphism check, and
\* fresh = true
layout_return ==
    /\ pc = "normalized"
    /\ IF debug_assertions /\ ~Postconditions(edges, ranks)
       THEN /\ pc' = "panicked"
            /\ UNCHANGED <<edges, fresh, copy, modified>>
       ELSE undone(undo_modify_edges(edges, modified.remove, modified.reverse))
    /\ UNCHANGED <<nodes, ranks, next_rank_idx, debug_assertions, yielded,
                   linked, hinted>>

\* iter_nodes without its test of fresh
iter_nodes_unchecked ==
    /\ pc = "idle"
    /\ pc' = pc
    /\ yielded' = [i \in 1..Len(nodes) |-> <<nodes[i].ix, nodes[i].position>>]
    /\ UNCHANGED <<nodes, edges, ranks, next_rank_idx, fresh, debug_assertions,
                   copy, modified, linked, hinted>>

\* Gansner::iter_nodes
iter_nodes ==
    /\ pc = "idle"
    /\ IF ~fresh
       THEN /\ pc' = "panicked"
            /\ yielded' = <<>>
       ELSE /\ pc' = pc
            /\ yielded' = [i \in 1..Len(nodes) |->
                              <<nodes[i].ix, nodes[i].position>>]
    /\ UNCHANGED <<nodes, edges, ranks, next_rank_idx, fresh, debug_assertions,
                   copy, modified, linked, hinted>>

\* The public calls, with the graph kept to MaxNodes nodes and MaxEdges edges.
Next ==
    \/ /\ Len(nodes) < MaxNodes
       /\ \E ix \in Payloads, size \in Sizes : add_node(ix, size)
    \/ /\ Len(edges) < MaxEdges
       /\ \E from \in Handles, to \in Handles : add_edge(from, to)
    \/ /\ Len(edges) < MaxEdges
       /\ \E from \in Handles, to \in Handles, l \in MinRankLens, w \in Weights :
              add_edge_with_options(from, to, l, w)
    \/ \E node \in Handles : set_rank_max(node)
    \/ \E node \in Handles : set_rank_min(node)
    \/ \E a \in Handles, b \in Handles : set_rank_same(a, b)
    \/ layout
    \/ layout_debug
    \/ layout_return
    \/ iter_nodes

Spec == Init /\ [][Next]_vars

\* The rank-hint calls on up to RankNodes nodes.
NextRanks ==
    \/ /\ Len(nodes) < RankNodes
       /\ \E ix \in Payloads, size \in Sizes : add_node(ix, size)
    \/ \E node \in Handles : set_rank_max(node)
    \/ \E node \in Handles : set_rank_min(node)
    \/ \E a \in Handles, b \in Handles : set_rank_same(a, b)

SpecRanks == Init /\ [][NextRanks]_vars

\* Building a graph of up to NormNodes nodes and NormEdges edges with its
\* hints, and laying it out.
NextNormalize ==
    \/ /\ Len(nodes) < NormNodes
       /\ \E ix \in Payloads, size \in Sizes : add_node(ix, size)
    \/ /\ Len(edges) < NormEdges
       /\ \E from \in Handles, to \in Handles : add_edge(from, to)
    \/ \E node \in Handles : set_rank_max(node)
    \/ \E node \in Handles : set_rank_min(node)
    \/ \E a \in Handles, b \in Handles : set_rank_same(a, b)
    \/ layout
    \/ layout_return

SpecNormalize == Init /\ [][NextNormalize]_vars

\* Building a graph of up to EdgeNodes nodes and EdgeEdges edges, with and
\* without options and without hints, and laying it out.
NextEdges ==
    \/ /\ Len(nodes) < EdgeNodes
       /\ \E ix \in Payloads, size \in Sizes : add_node(ix, size)
    \/ /\ Len(edges) < EdgeEdges
       /\ \E from \in Handles, to \in Handles : add_edge(from, to)
    \/ /\ Len(edges) < EdgeEdges
       /\ \E from \in Handles, to \in Handles, l \in MinRankLens, w \in Weights :
              add_edge_with_options(from, to, l, w)
    \/ layout
    \/ layout_return

SpecEdges == Init /\ [][NextEdges]_vars

\* The calls of the boundary scenario, on the nodes A..E = 1..5:
\* set_rank_min(A), set_rank_max(D), add_edge(B, A), add_edge(D, E), layout.
BoundaryMin == {1}
BoundaryMax == {4}
BoundaryEdges == <<<<2, 1>>, <<4, 5>>>>

NextBoundaryScenario ==
    \/ /\ Len(nodes) < ScenarioNodes
       /\ \E ix \in Payloads, size \in Sizes : add_node(ix, size)
    \/ /\ Len(edges) < Len(BoundaryEdges)
       /\ \E e \in Range(BoundaryEdges) :
              /\ {e[1], e[2]} \subseteq Handles
              /\ add_edge(e[1], e[2])
    \/ \E node \in BoundaryMin \cap Handles : set_rank_min(node)
    \/ \E node \in BoundaryMax \cap Handles : set_rank_max(node)
    \/ layout
    \/ layout_return

SpecBoundaryScenario == Init /\ [][NextBoundaryScenario]_vars

\* The calls of the cycle scenario, on the nodes A..E = 1..5: add_edge(A, B),
\* add_edge(B, C), add_edge(C, A), add_edge(D, E) in any order, layout.
CycleEdges == <<<<1, 2>>, <<2, 3>>, <<3, 1>>, <<4, 5>>>>

NextCycleScenario ==
    \/ /\ Len(nodes) < ScenarioNodes
       /\ \E ix \in Payloads, size \in Sizes : add_node(ix, size)
    \/ /\ Len(edges) < Len(CycleEdges)
       /\ \E e \in Range(CycleEdges) :
              /\ {e[1], e[2]} \subseteq Handles
              /\ add_edge(e[1], e[2])
    \/ layout
    \/ layout_return

SpecCycleScenario == Init /\ [][NextCycleScenario]_vars

\* ------------------------------------------------------------------ claims
\* C1: the graph that make_acyclic leaves (the state between layout_impl's
\* call of make_acyclic and its call of undo_modify_edges) is acyclic.
C1_NormalizedIsAcyclic ==
    pc = "normalized" => ~is_cyclic_directed(edges)

\* C2: when layout_impl has run make_acyclic and then undo_modify_edges with
\* the log make_acyclic returned, the graph has the nodes it had and the
\* multiset of (from, to, weight) edges it had when layout_impl was entered.
C2_UndoRestoresGraph ==
    [][(pc = "normalized" /\ pc' = "idle")
          => (nodes' = nodes /\ EdgeBag(edges') = EdgeBag(copy))]_vars

\* C3: in the graph that make_acyclic leaves, no node of the MIN group has
\* an incoming edge.
C3_MinNodesHaveNoIncoming ==
    pc = "normalized" => MinHasNoIncoming(edges, ranks)

\* C4: in the graph that make_acyclic leaves, no node of the MAX group has
\* an outgoing edge.
C4_MaxNodesHaveNoOutgoing ==
    pc = "normalized" => MaxHasNoOutgoing(edges, ranks)

\* C5: a call of iter_nodes panics whenever fresh is false (as it is from
\* construction and after every mutating call); whenever fresh is true it
\* returns and yields, in node order, exactly one (payload, position) pair
\* per node.  Nothing is ever yielded while fresh is false.
C5_ResultsOnlyWhenFresh ==
    /\ [](yielded # <<>> => fresh)
    /\ [][iter_nodes =>
            IF fresh
            THEN /\ pc' = "idle"
                 /\ Len(yielded') = Len(nodes)
                 /\ \A i \in 1..Len(nodes) :
                        yielded'[i] = <<nodes[i].ix, nodes[i].position>>
            ELSE pc' = "panicked" /\ yielded' = <<>>]_vars

\* a fresh facade that has yielded the pairs of its two nodes
C5_Witness ==
    /\ fresh
    /\ pc = "idle"
    /\ Len(nodes) = 2
    /\ Len(yielded) = 2

\* a step of one of the six mutating calls
Mutation ==
    \/ \E ix \in Payloads, size \in Sizes : add_node(ix, size)
    \/ \E from \in Handles, to \in Handles : add_edge(from, to)
    \/ \E from \in Handles, to \in Handles, l \in MinRankLens, w \in Weights :
           add_edge_with_options(from, to, l, w)
    \/ \E node \in Handles : set_rank_max(node)
    \/ \E node \in Handles : set_rank_min(node)
    \/ \E a \in Handles, b \in Handles : set_rank_same(a, b)

\* C6: every add_node, add_edge, add_edge_with_options, set_rank_min,
\* set_rank_max and set_rank_same call leaves fresh false, also when it
\* panics or changes nothing else; and fresh becomes true only by the
\* completion of a layout.  So fresh is true only if no such call has been
\* made since the last completed layout.
C6_FreshClearedByEveryMutation ==
    [][/\ Mutation => ~fresh'
       /\ (fresh' /\ ~fresh) => (pc = "normalized" /\ pc' = "idle")]_vars

\* a mutating call that panicked after a layout had completed on a graph
\* with an edge and a hint: fresh is false again
C6_Witness ==
    /\ pc = "panicked"
    /\ ~fresh
    /\ copy = <<>>
    /\ edges # <<>>
    /\ DOMAIN ranks # {}

\* C7: a call of layout or layout_debug made while fresh is true (no
\* mutation since the last layout) runs neither make_acyclic nor
\* undo_modify_edges and changes nothing in the nodes (so their positions),
\* the edges, the registry or fresh.
C7_LayoutWhenFreshChangesNothing ==
    [][(fresh /\ (layout \/ layout_debug))
          => UNCHANGED <<nodes, edges, ranks, next_rank_idx, fresh, pc, copy,
                         modified, linked, hinted>>]_vars

\* a laid-out facade with an edge, on which layout can be called again
C7_Witness ==
    /\ fresh
    /\ pc = "idle"
    /\ edges # <<>>
    /\ Len(nodes) = 2

\* C8: from every registry state, for all nodes a, b, c: when set_rank(a, b)
\* returns and set_rank(b, c) on the registry it left returns too, a and c
\* both have a group and it is the same group.
C8_SameRankIsTransitive ==
    \A a \in Handles, b \in Handles, c \in Handles :
        LET r1 == set_rank(rank_hints, a, b)
            r2 == set_rank([ranks |-> r1.ranks,
                            next_rank_idx |-> r1.next_rank_idx], b, c)
        IN  (r1.ok /\ r2.ok) =>
                /\ a \in DOMAIN r2.ranks
                /\ c \in DOMAIN r2.ranks
                /\ r2.ranks[a] = r2.ranks[c]

\* three nodes that set_rank_same calls have joined into the second group
\* allocated: a call merged the first group into it
C8_Witness ==
    /\ pc = "idle"
    /\ Len(nodes) = 3
    /\ DOMAIN linked = Handles
    /\ \A m \in Handles, n \in Handles : linked[m] = linked[n]
    /\ \A n \in Handles : ranks[n] = FIRST_RANK + 1

\* one of a, b is in the MIN group and the other in the MAX group
OneMinOneMax(a, b) ==
    /\ a \in DOMAIN ranks
    /\ b \in DOMAIN ranks
    /\ {ranks[a], ranks[b]} = {MIN_RANK, MAX_RANK}

\* C9: set_rank_same(a, b) panics whenever one of a, b is in the MIN group
\* and the other in the MAX group, and leaves every node's group as it was;
\* and no node joined to a MIN node by a chain of set_rank_same calls that
\* returned is in the MAX group.
C9_MinAndMaxNeverMerge ==
    /\ [](\A m \in DOMAIN linked, n \in DOMAIN linked :
            (linked[m] = linked[n] /\ ranks[m] = MIN_RANK)
                => ranks[n] # MAX_RANK)
    /\ [][\A a \in Handles, b \in Handles :
            (set_rank_same(a, b) /\ OneMinOneMax(a, b))
                => (pc' = "panicked" /\ ranks' = ranks)]_vars

\* a call has panicked on a registry of three nodes in which a node is in
\* MIN by absorption and another node is in MAX, the registry on which
\* set_rank_same of those two nodes panics
C9_Witness ==
    /\ pc = "panicked"
    /\ Len(nodes) = 3
    /\ \E m \in DOMAIN linked, n \in DOMAIN ranks :
          /\ linked[m] # m
          /\ ranks[m] = MIN_RANK
          /\ ranks[n] = MAX_RANK

\* C10: set_rank_min(node) and set_rank_max(node) panic whenever the node
\* already has a group (MIN, MAX or a plain one) and leave the registry as it
\* was; on a node without a group they return and give it MIN_RANK resp.
\* MAX_RANK and change no other node's group.
C10_MinMaxOnlyOnUngrouped ==
    [][\A node \in Handles :
         /\ set_rank_min(node) =>
              IF node \in DOMAIN ranks
              THEN pc' = "panicked" /\ ranks' = ranks
              ELSE pc' = "idle" /\ ranks' = Insert(ranks, node, MIN_RANK)
         /\ set_rank_max(node) =>
              IF node \in DOMAIN ranks
              THEN pc' = "panicked" /\ ranks' = ranks
              ELSE pc' = "idle" /\ ranks' = Insert(ranks, node, MAX_RANK)]_vars

\* a call has panicked on a registry that holds a MIN node and a plain group
\* but no MAX node: set_rank_same does not panic there, so it was
\* set_rank_min or set_rank_max on a node that had a group
C10_Witness ==
    /\ pc = "panicked"
    /\ \E n \in DOMAIN ranks : ranks[n] = MIN_RANK
    /\ \E n \in DOMAIN ranks : ranks[n] \notin {MIN_RANK, MAX_RANK}
    /\ \A n \in DOMAIN ranks : ranks[n] # MAX_RANK

\* the weights of the edges the facade holds: in the graph, in the copy
\* layout_impl keeps, and in the log of removed edges
HeldWeights ==
    {edges[i].weight.weight : i \in 1..Len(edges)}
        \cup {copy[i].weight.weight : i \in 1..Len(copy)}
        \cup {modified.remove[i].weight.weight : i \in 1..Len(modified.remove)}

\* C11: add_edge_with_options with a negative weight panics and adds no
\* edge; so every edge the facade holds has a weight >= 0, in the graph that
\* make_acyclic leaves and after undo_modify_edges as well.
C11_WeightsNeverNegative ==
    /\ [](\A w \in HeldWeights : w >= 0)
    /\ [][\A from \in Handles, to \in Handles, l \in MinRankLens, w \in Weights :
            (add_edge_with_options(from, to, l, w) /\ w < 0)
                => (pc' = "panicked" /\ edges' = edges)]_vars

\* a call has panicked outside layout_impl on a graph that holds an edge and
\* no hint: it was add_edge_with_options with the negative weight
C11_Witness ==
    /\ pc = "panicked"
    /\ copy = <<>>
    /\ edges # <<>>
    /\ \E i \in 1..Len(edges) : edges[i].weight.weight = 2

\* node p is in a plain group and node s in the MIN or the MAX group
PlainAndBoundary(p, s) ==
    /\ p \in DOMAIN ranks
    /\ s \in DOMAIN ranks
    /\ ranks[p] \notin {MIN_RANK, MAX_RANK}
    /\ ranks[s] \in {MIN_RANK, MAX_RANK}

\* the step has moved the members of p's group, and no other node, into the
\* group of s, and rank_min / rank_max yield them from then on
Absorbed(p, s) ==
    /\ pc' = "idle"
    /\ DOMAIN ranks' = DOMAIN ranks
    /\ \A n \in DOMAIN ranks :
          ranks'[n] = IF ranks[n] = ranks[p] THEN ranks[s] ELSE ranks[n]
    /\ rank_min(ranks') =
          rank_min(ranks) \cup (IF ranks[s] = MIN_RANK
                                THEN {n \in DOMAIN ranks : ranks[n] = ranks[p]}
                                ELSE {})
    /\ rank_max(ranks') =
          rank_max(ranks) \cup (IF ranks[s] = MAX_RANK
                                THEN {n \in DOMAIN ranks : ranks[n] = ranks[p]}
                                ELSE {})

\* C12: when set_rank_same joins a node of a plain group with a node of the
\* MIN (resp. MAX) group, in either argument order, the call returns, every
\* member of the plain group is in MIN (resp. MAX) afterwards and is yielded
\* by rank_min (resp. rank_max), and no other node changes group.
C12_PlainGroupIsAbsorbed ==
    [][\A a \in Handles, b \in Handles :
         /\ (set_rank_same(a, b) /\ PlainAndBoundary(a, b)) => Absorbed(a, b)
         /\ (set_rank_same(a, b) /\ PlainAndBoundary(b, a)) => Absorbed(b, a)]_vars

\* three nodes in MIN after a plain group had been allocated: its members
\* got there by absorption
C12_Witness ==
    /\ pc = "idle"
    /\ Len(nodes) = 3
    /\ next_rank_idx = FIRST_RANK + 1
    /\ DOMAIN ranks = Handles
    /\ \A n \in Handles : ranks[n] = MIN_RANK
    /\ \E m \in DOMAIN linked, n \in DOMAIN linked : m # n /\ linked[m] = linked[n]

\* the (from, to) pairs of an edge vector, in the vector's order
Endpoints(es) == [i \in 1..Len(es) |-> <<es[i].source, es[i].target>>]

\* the boundary scenario is set up: A in MIN, D in MAX and nothing else
\* hinted, the edges B->A and D->E added in that order
BoundaryScenarioBuilt(es) ==
    /\ Len(nodes) = ScenarioNodes
    /\ DOMAIN ranks = BoundaryMin \cup BoundaryMax
    /\ rank_min(ranks) = BoundaryMin
    /\ rank_max(ranks) = BoundaryMax
    /\ Endpoints(es) = BoundaryEdges

\* C13: in the boundary scenario make_acyclic leaves exactly the edges A->B
\* and E->D, and undo_modify_edges then leaves exactly B->A and D->E.
C13_BoundaryScenario ==
    [][/\ (layout /\ ~fresh /\ BoundaryScenarioBuilt(edges))
            => /\ pc' = "normalized"
               /\ Len(edges') = 2
               /\ Range(Endpoints(edges')) = {<<1, 2>>, <<5, 4>>}
       /\ (layout_return /\ BoundaryScenarioBuilt(copy) /\ pc' = "idle")
            => /\ Len(edges') = 2
               /\ Range(Endpoints(edges')) = Range(BoundaryEdges)]_vars

\* the cycle scenario is set up: no hints, and each of the edges A->B, B->C,
\* C->A, D->E added once, in any order
CycleScenarioBuilt(es) ==
    /\ Len(nodes) = ScenarioNodes
    /\ DOMAIN ranks = {}
    /\ Len(es) = Len(CycleEdges)
    /\ Range(Endpoints(es)) = Range(CycleEdges)

\* the edges of the 3-cycle
CycleOnly == {e \in Range(CycleEdges) : e # <<4, 5>>}

\* C14: in the cycle scenario make_acyclic returns and leaves an acyclic
\* graph in which exactly one edge of the 3-cycle is reversed or deleted and
\* every other edge, D->E among them, is as it was; undo_modify_edges then
\* leaves exactly A->B, B->C, C->A and D->E.
C14_CycleScenario ==
    [][/\ (layout /\ ~fresh /\ CycleScenarioBuilt(edges))
            => /\ pc' = "normalized"
               /\ ~is_cyclic_directed(edges')
               /\ \E c \in CycleOnly :
                     \/ /\ Len(edges') = 4
                        /\ Range(Endpoints(edges')) =
                              (Range(CycleEdges) \ {c}) \cup {<<c[2], c[1]>>}
                     \/ /\ Len(edges') = 3
                        /\ Range(Endpoints(edges')) = Range(CycleEdges) \ {c}
       /\ (layout_return /\ CycleScenarioBuilt(copy))
            => /\ pc' = "idle"
               /\ Len(edges') = 4
               /\ Range(Endpoints(edges')) = Range(CycleEdges)]_vars

\* layout has returned on the cycle scenario, in a build with the checks on
C14_Witness ==
    /\ fresh
    /\ pc = "idle"
    /\ debug_assertions
    /\ CycleScenarioBuilt(edges)

\* the edge vector es with every edge whose identifier is in F deleted if it
\* is a loop and reversed if it is not, from identifier i on
RECURSIVE Eliminated(_, _, _)
Eliminated(es, i, F) ==
    IF i > Len(es) THEN <<>>
    ELSE (IF i \notin F THEN <<es[i]>>
          ELSE IF es[i].source = es[i].target THEN <<>>
          ELSE <<[es[i] EXCEPT !.source = es[i].target,
                               !.target = es[i].source]>>)
         \o Eliminated(es, i + 1, F)

\* C15: on a graph without hints make_acyclic returns, having deleted every
\* edge the feedback arc set flags that is a loop and reversed every other
\* flagged edge; the graph it leaves has no loop; and undo_modify_edges puts
\* every deleted loop back at its node with its weight, however many loops
\* the graph has.
C15_LoopsDeletedOthersReversed ==
    [][/\ (layout /\ ~fresh /\ DOMAIN ranks = {})
            => /\ pc' = "normalized"
               /\ EdgeBag(edges') =
                     EdgeBag(Eliminated(edges, 1,
                                        Range(greedy_feedback_arc_set(edges))))
               /\ \A k \in 1..Len(edges') : edges'[k].source # edges'[k].target
       /\ (layout_return /\ DOMAIN ranks = {} /\ pc' = "idle")
            => EdgeBag(edges') = EdgeBag(copy)]_vars

\* es is a single edge between two different nodes that are both in the MIN
\* group or both in the MAX group
OneEdgeInsideBoundary(es) ==
    /\ Len(es) = 1
    /\ es[1].source # es[1].target
    /\ \/ {es[1].source, es[1].target} \subseteq rank_min(ranks)
       \/ {es[1].source, es[1].target} \subseteq rank_max(ranks)

\* C16: layout on a graph whose edge joins two MIN nodes (or two MAX nodes)
\* does not panic, neither in make_acyclic nor in the checks and the undo
\* that follow it, in either build.
C16_EdgeInsideBoundaryIsNoError ==
    [][/\ (layout /\ ~fresh /\ OneEdgeInsideBoundary(edges))
            => pc' = "normalized"
       /\ (layout_return /\ OneEdgeInsideBoundary(copy))
            => pc' = "idle"]_vars

\* the reference: node n is joined, by set_rank_same calls that returned,
\* to a node on which set_rank_min (r = MIN_RANK) or set_rank_max
\* (r = MAX_RANK) returned
ReferenceBoundary(n, r) ==
    \E k \in DOMAIN hinted :
        hinted[k] = r /\ Find(linked, k) = Find(linked, n)

\* the reference: m and n are in one class of the union-find, or both
\* joined to MIN, or both joined to MAX
ReferenceSame(m, n) ==
    \/ Find(linked, m) = Find(linked, n)
    \/ ReferenceBoundary(m, MIN_RANK) /\ ReferenceBoundary(n, MIN_RANK)
    \/ ReferenceBoundary(m, MAX_RANK) /\ ReferenceBoundary(n, MAX_RANK)

\* the partition of the grouped nodes that a rank map stands for
Partition(r) == {{n \in DOMAIN r : r[n] = r[m]} : m \in DOMAIN r}

\* C17: after any sequence of set_rank_min / set_rank_max / set_rank_same
\* calls the nodes with a group are those a call that returned has named,
\* two of them have the same group iff the reference union-find joins them
\* (all nodes joined to MIN counting as one class, and all joined to MAX),
\* the MIN and MAX groups are the classes joined to MIN and MAX, and
\* set_rank(a, b) returns or panics as set_rank(b, a) does and leaves the
\* same partition.
C17_RegistryIsUnionFind ==
    /\ DOMAIN ranks = DOMAIN hinted \cup DOMAIN linked
    /\ \A m \in DOMAIN ranks, n \in DOMAIN ranks :
          (ranks[m] = ranks[n]) <=> ReferenceSame(m, n)
    /\ \A n \in DOMAIN ranks :
          /\ (ranks[n] = MIN_RANK) <=> ReferenceBoundary(n, MIN_RANK)
          /\ (ranks[n] = MAX_RANK) <=> ReferenceBoundary(n, MAX_RANK)
    /\ \A a \in Handles, b \in Handles :
          /\ set_rank(rank_hints, a, b).ok = set_rank(rank_hints, b, a).ok
          /\ Partition(set_rank(rank_hints, a, b).ranks)
                = Partition(set_rank(rank_hints, b, a).ranks)

\* two nodes that set_rank_min made MIN one by one and no call joined, and
\* a third node in a plain group
C17_Witness ==
    /\ pc = "idle"
    /\ \E m \in DOMAIN hinted, n \in DOMAIN hinted :
          /\ m # n
          /\ hinted[m] = MIN_RANK
          /\ hinted[n] = MIN_RANK
          /\ Find(linked, m) # Find(linked, n)
    /\ \E k \in DOMAIN linked : ranks[k] \notin {MIN_RANK, MAX_RANK}

\* reverse_edge on edge id of es, then on the identifier that call returned
ReversedTwice(es, id) ==
    reverse_edge(reverse_edge(es, id).es, reverse_edge(es, id).id)

\* the (from, to, weight) of edge e with its direction turned
Turned(e) == <<e.target, e.source, e.weight>>

\* C18: for every edge of every edge vector the facade reaches, reverse_edge
\* returns the identifier of an edge with the same weight and the opposite
\* direction, and reverse_edge on that identifier returns the identifier of
\* an edge with the original direction and weight and leaves the multiset of
\* (from, to, weight) of the whole graph as it was before the two calls.
C18_ReverseTwiceRestores ==
    \A id \in 1..Len(edges) :
        /\ reverse_edge(edges, id).ok
        /\ Graph_has_edge(reverse_edge(edges, id).es, reverse_edge(edges, id).id)
        /\ EdgeTriple(reverse_edge(edges, id).es[reverse_edge(edges, id).id])
              = Turned(edges[id])
        /\ ReversedTwice(edges, id).ok
        /\ EdgeTriple(ReversedTwice(edges, id).es[ReversedTwice(edges, id).id])
              = EdgeTriple(edges[id])
        /\ EdgeBag(ReversedTwice(edges, id).es) = EdgeBag(edges)

\* make_acyclic has reversed an edge, of a graph of two edges that differ in
\* weight, neither of them a loop
C18_Witness ==
    /\ pc = "normalized"
    /\ Len(modified.reverse) = 1
    /\ Len(edges) = 2
    /\ edges[1].weight # edges[2].weight
    /\ \A i \in 1..2 : edges[i].source # edges[i].target

\* the edge vector es with every edge marked by the identifier it has now,
\* in the place of its weight: reverse_edge and the removal log carry the
\* weight along, so the mark says which edge of es an edge is
Tagged(es) == [i \in 1..Len(es) |-> [es[i] EXCEPT !.weight = i]]

\* the marks of the edges that the identifiers ixs denote in es (0: none)
TagsAt(es, ixs) ==
    [k \in 1..Len(ixs) |->
        IF Graph_has_edge(es, ixs[k]) THEN es[ixs[k]].weight ELSE 0]

\* the marks of the edges that reverse_edge finds when it is called on the
\* identifiers ixs one after another (0: the lookup finds no edge)
RECURSIVE UsedByReverse(_, _)
UsedByReverse(es, ixs) ==
    IF ixs = <<>> THEN <<>>
    ELSE IF ~Graph_has_edge(es, Head(ixs)) THEN <<0>>
         ELSE <<es[Head(ixs)].weight>>
                  \o UsedByReverse(reverse_edge(es, Head(ixs)).es, Tail(ixs))

\* the marks of the edges that the removal loop finds for the identifiers
\* ixs one after another (0: the lookup finds no edge)
RECURSIVE UsedByRemove(_, _)
UsedByRemove(es, ixs) ==
    IF ixs = <<>> THEN <<>>
    ELSE IF ~Graph_has_edge(es, Head(ixs)) THEN <<0>>
         ELSE <<es[Head(ixs)].weight>>
                  \o UsedByRemove(Graph_remove_edge(es, Head(ixs)), Tail(ixs))

Distinct(s) == \A i \in 1..Len(s), j \in 1..Len(s) : i # j => s[i] # s[j]

\* the identifiers the two boundary loops of prepare_rank_assignment collect
BoundaryIds(es, min_order, max_order) ==
    CollectDirected(es, min_order, "Incoming")
        \o CollectDirected(es, max_order, "Outgoing")

\* boundary reversal: every collected identifier is used on the edge it was
\* collected for, and no edge is reversed twice
BoundaryIdsDenote(es, ixs) ==
    /\ UsedByReverse(es, ixs) = TagsAt(es, ixs)
    /\ Distinct(UsedByReverse(es, ixs))

\* self-loop deletion and cycle reversal on the graph `first` that the
\* boundary reversal left: the identifiers of the flagged loops (loops) and
\* of the other flagged edges (others) are used on the edges they were
\* collected for, and no edge is reversed twice
CycleIdsDenote(first, loops, others) ==
    /\ UsedByRemove(first, loops) = TagsAt(first, loops)
    /\ RemoveEach(first, loops, <<>>).ok =>
          /\ UsedByReverse(RemoveEach(first, loops, <<>>).es, others)
                = TagsAt(first, others)
          /\ Distinct(UsedByReverse(RemoveEach(first, loops, <<>>).es, others))

\* the marks of the edges that the identifiers of the undo log denoted when
\* reverse_edge returned them: the edges reversed, in the order of the log
RecordedTags(es, first, loops, others) ==
    UsedByReverse(es, first)
        \o UsedByReverse(RemoveEach(ReverseEach(es, first, <<>>).es,
                                    loops, <<>>).es, others)

\* undo: every identifier of the log is used on the edge it was recorded for
LogIdsDenote(norm, recorded) ==
    UsedByReverse(AddEach(norm.es, norm.remove), norm.reverse) = recorded

\* the three uses, for the run of make_acyclic and undo_modify_edges on the
\* marked graph es whose boundary loops collected ixs
FlaggedIdsDenote(es, ixs, first, norm) ==
    /\ BoundaryIdsDenote(es, ixs)
    /\ first.ok =>
          CycleIdsDenote(first.es,
              Loops(first.es, greedy_feedback_arc_set(first.es), TRUE),
              Loops(first.es, greedy_feedback_arc_set(first.es), FALSE))
    /\ norm.ok =>
          LogIdsDenote(norm,
              RecordedTags(es, ixs,
                  Loops(first.es, greedy_feedback_arc_set(first.es), TRUE),
                  Loops(first.es, greedy_feedback_arc_set(first.es), FALSE)))

IdsDenote(es, min_order, max_order) ==
    FlaggedIdsDenote(es, BoundaryIds(es, min_order, max_order),
        ReverseEach(es, BoundaryIds(es, min_order, max_order), <<>>),
        prepare_rank_assignment(es, min_order, max_order))

\* C19: in every run of layout that normalizes, each identifier that the
\* boundary loops, the loop over the feedback arc set and the undo log hold
\* denotes, when reverse_edge or remove_edge is called on it, the edge it
\* denoted when it was collected or recorded, and no edge is reversed twice
\* in one phase.
C19_IdentifiersStayValid ==
    [][\A min_order \in Orders(rank_min(ranks)),
          max_order \in Orders(rank_max(ranks)) :
            (/\ pc = "idle"
             /\ ~fresh
             /\ make_acyclic(prepare_rank_assignment(edges, min_order, max_order)))
            => IdsDenote(Tagged(edges), min_order, max_order)]_vars

\* C20: in a build without debug assertions, on every graph and every hints
\* that calls which returned have built, layout runs without a panic through
\* make_acyclic and through undo_modify_edges (every identifier looked up
\* finds an edge), leaves the nodes with their payloads and the rank hints
\* as they were, and has fresh = true when it returns.
C20_ReleaseLayoutCompletes ==
    [][(~debug_assertions /\ (layout \/ layout_return))
          => /\ pc' # "panicked"
             /\ nodes' = nodes
             /\ ranks' = ranks
             /\ next_rank_idx' = next_rank_idx
             /\ (pc' = "idle" => fresh')]_vars

=============================================================================
